---- MODULE Spec2Model ----
(***************************************************************************)
(* ExecutionSubagentTool: a tool instance shared by the requests of a     *)
(* chat session.  resolveInput binds a prompt context on the instance,    *)
(* invoke builds a SubagentToolCallingLoop configuration from the bound   *)
(* context, runs the loop behind a filtered response stream and collapses *)
(* the loop's result into one text part.                                  *)
(***************************************************************************)
EXTENDS Naturals, Sequences, FiniteSets, TLC

VARIABLES
    _inputContext,  \* the instance field: Undefined or the last bound context
    reqInput,       \* per request: the IExecutionSubagentParams of the caller
    reqContext,     \* per request: the IBuildPromptContext of the caller
    pc,             \* per request: where its invoke call stands
    loops,          \* per request: the loop configurations created by its invoke
    stream,         \* per request: the sink handed to loop.run
    pushed,         \* per request: the parts its loop pushed to that sink
    outer,          \* per request context: the parts its outer stream received
    loopResult,     \* per request: what loop.run resolved to
    result          \* per request: what invoke returned

vars == <<_inputContext, reqInput, reqContext, pc, loops, stream, pushed,
          outer, loopResult, result>>

----------------------------------------------------------------------------
(* Bounds and input domains *)

MaxPush == 3        \* parts one loop run pushes at most
MaxRounds == 2      \* tool call rounds in one loop result at most

Requests == {"r1", "r2"}
SoloRequests == {"r1"}

Undefined == [undefined |-> TRUE]
IsDefined(x) == "undefined" \notin DOMAIN x
Has(obj, field) == field \in DOMAIN obj

Inputs ==
    { [command |-> "ls -la", objective |-> "list files in current directory",
       description |-> "Listing files"],
      [command |-> "pwd", objective |-> "", description |-> "Printing cwd"] }

LocationOf(r) == IF r = "r1" THEN "panel" ELSE "editor"
RequestHandle(r) == [id |-> r, location |-> LocationOf(r)]

\* The prompt contexts a caller can bind for request r: request and stream
\* are both optional properties of IBuildPromptContext.
ContextsOf(r) ==
    { [id |-> r, request |-> RequestHandle(r), stream |-> [sink |-> r]],
      [id |-> r, request |-> RequestHandle(r)],
      [id |-> r, stream |-> [sink |-> r]] }

----------------------------------------------------------------------------
(* Names imported by the tool *)

ChatFetchResponseType ==
    [Success |-> "success", Failed |-> "failed",
     RateLimited |-> "rateLimited", Canceled |-> "canceled"]

ToolName == [CoreRunInTerminal |-> "run_in_terminal",
             ExecutionSubagent |-> "execution_subagent"]

PartKinds ==
    {"ChatPrepareToolInvocationPart", "ChatResponseTextEditPart",
     "ChatResponseNotebookEditPart", "ChatResponseMarkdownPart",
     "ChatResponseProgressPart"}

----------------------------------------------------------------------------
(* invoke, up to the call of loop.run *)

\* A property read: a property the object does not carry reads as undefined.
Get(obj, field) == IF Has(obj, field) THEN obj[field] ELSE Undefined

\* The source quotes the word output in backquotes, which a TLA+ string cannot
\* hold; they are written as apostrophes here.
ExecutionInstruction(input) ==
    "Command: " \o input.command \o "\n" \o
    "Objective: " \o input.objective \o "\n" \o
    "\n" \o
    "You are a specialized execution subagent. Your task is to execute the above command and extract relevant excerpts of its output according to the purpose described in the objective.\n" \o
    "You have access to just one tool:\n" \o
    "- run_in_terminal: Executes a command in the terminal and returns the output.\n" \o
    "\n" \o
    "After completing your search, return ONLY a valid JSON array of the most relevant execution output excerpts in this exact format:\n" \o
    "[\n" \o
    "  {\n" \o
    "    \"output\": \"Excerpt of the command output here\"\n" \o
    " \t \"return_code\": 0\n" \o
    "  }\n" \o
    "]\n" \o
    "\n" \o
    "Include only the most relevant excerpts that would help satisfy the objective.\n" \o
    "The \"return_code\" field should capture the command's return code.\n" \o
    "The 'output' can be an empty string if there is no relevant output.\n" \o
    "Do not include any explanation or additional text, only the JSON array.\n"

ToolCallLimit == 25

ToolCallLimitByCommand(input) == IF input.command = "pwd" THEN 1 ELSE 25

ToolCallLimitFor(input) == ToolCallLimit

AllowedToolsWithSelf(context) ==
    IF Has(context, "stream")
    THEN {ToolName.CoreRunInTerminal}
    ELSE {ToolName.CoreRunInTerminal, ToolName.ExecutionSubagent}

AllowedTools(context) == {ToolName.CoreRunInTerminal}

\* The options object of createInstance, evaluated property by property.
CreateLoopOptions(input, context) ==
    [toolCallLimit |-> ToolCallLimitFor(input),
     conversation |->
        [sessionId |-> "",
         turns |-> <<[id |-> "",
                      request |-> [type |-> "user",
                                   message |-> ExecutionInstruction(input)]]>>],
     request |-> Get(context, "request"),
     location |-> Get(Get(context, "request"), "location"),
     promptText |-> input.command,
     allowedTools |-> AllowedTools(context),
     customPromptClass |-> "ExecutionSubagentPrompt"]

OptionsThrowOnlyUnbound(context) == ~IsDefined(context)

\* this._inputContext!.request!.location: the non-null assertions compile
\* away, a property read of undefined raises a TypeError.
OptionsThrow(context) ==
    \/ ~IsDefined(context)
    \/ ~IsDefined(Get(context, "request"))

KeepPartNoNotebook(part) ==
    part.kind \in {"ChatPrepareToolInvocationPart", "ChatResponseTextEditPart"}

KeepPart(part) ==
    part.kind \in {"ChatPrepareToolInvocationPart", "ChatResponseTextEditPart",
                   "ChatResponseNotebookEditPart"}

\* ChatResponseStreamImpl.filter: a stream that pushes to the wrapped stream
\* the parts the callback accepts.
FilterPush(log, part) == IF KeepPart(part) THEN Append(log, part) ELSE log

\* this._inputContext?.stream && ChatResponseStreamImpl.filter(...)
FilteredStream(context) ==
    IF IsDefined(Get(context, "stream"))
    THEN [target |-> context.stream]
    ELSE Undefined

----------------------------------------------------------------------------
(* invoke, after loop.run resolved *)

FailurePrefix == "The search subagent request failed with this message:\n"

\* toolCallRounds.at(-1)?.response ?? round.response ?? ''
SuccessResponse(res) ==
    LET rounds == res.toolCallRounds
    IN  IF Len(rounds) > 0 /\ Has(rounds[Len(rounds)], "response")
        THEN rounds[Len(rounds)].response
        ELSE IF Has(res.round, "response")
             THEN res.round.response
             ELSE ""

FailureResponse(res) ==
    FailurePrefix \o res.response.type \o ": " \o res.response.reason

SubagentResponseFirstRound(res) ==
    IF res.response.type = ChatFetchResponseType.Success
    THEN IF Len(res.toolCallRounds) > 0
         THEN res.toolCallRounds[1].response
         ELSE SuccessResponse(res)
    ELSE FailureResponse(res)

SubagentResponseNoFallback(res) ==
    IF res.response.type = ChatFetchResponseType.Success
    THEN IF Len(res.toolCallRounds) > 0
         THEN SuccessResponse(res)
         ELSE ""
    ELSE FailureResponse(res)

SubagentResponseReasonOnly(res) ==
    IF res.response.type = ChatFetchResponseType.Success
    THEN SuccessResponse(res)
    ELSE FailurePrefix \o res.response.reason

SubagentResponseBareReason(res) ==
    IF res.response.type = ChatFetchResponseType.Success
    THEN SuccessResponse(res)
    ELSE res.response.reason

SubagentResponse(res) ==
    IF res.response.type = ChatFetchResponseType.Success
    THEN SuccessResponse(res)
    ELSE FailureResponse(res)

\* prepareInvocation(options, token)
PrepareInvocation(input) == [invocationMessage |-> input.description]

\* new ExtendedLanguageModelToolResult([new LanguageModelTextPart(text)])
ToolResult(text) == [content |-> <<[value |-> text]>>]

----------------------------------------------------------------------------
(* What a loop run can push and return *)

RECURSIVE SeqsUpTo(_, _)
SeqsUpTo(S, n) ==
    IF n = 0 THEN {<<>>}
    ELSE LET shorter == SeqsUpTo(S, n - 1)
         IN  shorter \cup {Append(q, x) : q \in shorter, x \in S}

RoundTexts == {"", "[{\"output\":\"file1\\nfile2\",\"return_code\":0}]"}
FallbackRounds ==
    {[id |-> "last"], [id |-> "last", response |-> ""],
     [id |-> "last", response |-> "[]"]}
Reasons == {"", "rate limited"}

FailureTypes == {ChatFetchResponseType.Failed, ChatFetchResponseType.RateLimited}
Responses ==
    {[type |-> ChatFetchResponseType.Success]}
    \cup {[type |-> t, reason |-> why] : t \in FailureTypes, why \in Reasons}

LoopResultsOf(maxRounds) ==
    [response : Responses,
     toolCallRounds : SeqsUpTo({[response |-> t] : t \in RoundTexts}, maxRounds),
     round : FallbackRounds]

AllResults == LoopResultsOf(MaxRounds)

\* The two-request specification runs its loops over a slice of the above.
FewKinds == {"ChatPrepareToolInvocationPart", "ChatResponseMarkdownPart"}
FewResults ==
    { [response |-> [type |-> ChatFetchResponseType.Success],
       toolCallRounds |-> <<[response |-> "[]"]>>, round |-> [id |-> "last"]],
      [response |-> [type |-> ChatFetchResponseType.Canceled, reason |-> ""],
       toolCallRounds |-> <<>>, round |-> [id |-> "last"]] }

----------------------------------------------------------------------------
(* The tool instance and its callers *)

Init ==
    /\ _inputContext = Undefined
    /\ reqInput \in [Requests -> Inputs]
    /\ reqContext \in {f \in [Requests -> UNION {ContextsOf(r) : r \in Requests}] :
                          \A r \in Requests : f[r] \in ContextsOf(r)}
    /\ pc = [r \in Requests |-> "idle"]
    /\ loops = [r \in Requests |-> <<>>]
    /\ stream = [r \in Requests |-> Undefined]
    /\ pushed = [r \in Requests |-> <<>>]
    /\ outer = [r \in Requests |-> <<>>]
    /\ loopResult = [r \in Requests |-> Undefined]
    /\ result = [r \in Requests |-> Undefined]

\* One request at a time: the second caller never shows up.
InitSolo ==
    /\ Init
    /\ \A r \in Requests \ SoloRequests :
          /\ reqInput[r] = [command |-> "pwd", objective |-> "",
                            description |-> "Printing cwd"]
          /\ reqContext[r] = [id |-> r, request |-> RequestHandle(r)]

\* resolveInput(input, promptContext, mode) on behalf of request r
ResolveInput(r) ==
    /\ pc[r] = "idle"
    /\ _inputContext' = reqContext[r]
    /\ pc' = [pc EXCEPT ![r] = "resolved"]
    /\ UNCHANGED <<reqInput, reqContext, loops, stream, pushed, outer,
                   loopResult, result>>

\* invoke(options, token) on behalf of request r, up to the await of loop.run
Invoke(r) ==
    /\ pc[r] \in {"idle", "resolved"}
    /\ IF OptionsThrow(_inputContext)
       THEN /\ pc' = [pc EXCEPT ![r] = "threw"]
            /\ UNCHANGED <<loops, stream>>
       ELSE /\ loops' = [loops EXCEPT
                  ![r] = Append(@, CreateLoopOptions(reqInput[r], _inputContext))]
            /\ stream' = [stream EXCEPT ![r] = FilteredStream(_inputContext)]
            /\ pc' = [pc EXCEPT ![r] = "running"]
    /\ UNCHANGED <<_inputContext, reqInput, reqContext, pushed, outer,
                   loopResult, result>>

\* The running loop of request r pushes one part to the stream it was given.
LoopPush(r, kinds) ==
    /\ pc[r] = "running"
    /\ IsDefined(stream[r])
    /\ Len(pushed[r]) < MaxPush
    /\ \E k \in kinds :
          LET part == [kind |-> k, from |-> r, nr |-> Len(pushed[r]) + 1]
          IN  /\ pushed' = [pushed EXCEPT ![r] = Append(@, part)]
              /\ outer' = [outer EXCEPT
                    ![stream[r].target.sink] = FilterPush(@, part)]
    /\ UNCHANGED <<_inputContext, reqInput, reqContext, pc, loops, stream,
                   loopResult, result>>

\* A variant that runs a fresh loop when the first one failed.
LoopReturnRetry(r, results) ==
    /\ pc[r] = "running"
    /\ \E res \in results :
          IF res.response.type = ChatFetchResponseType.Success
          THEN /\ loopResult' = [loopResult EXCEPT ![r] = res]
               /\ result' = [result EXCEPT ![r] = ToolResult(SubagentResponse(res))]
               /\ pc' = [pc EXCEPT ![r] = "done"]
               /\ UNCHANGED loops
          ELSE /\ loops' = [loops EXCEPT ![r] = Append(@, loops[r][1])]
               /\ UNCHANGED <<loopResult, result, pc>>
    /\ UNCHANGED <<_inputContext, reqInput, reqContext, stream, pushed, outer>>

\* loop.run resolves and invoke runs to its return.
LoopReturn(r, results) ==
    /\ pc[r] = "running"
    /\ \E res \in results :
          /\ loopResult' = [loopResult EXCEPT ![r] = res]
          /\ result' = [result EXCEPT ![r] = ToolResult(SubagentResponse(res))]
    /\ pc' = [pc EXCEPT ![r] = "done"]
    /\ UNCHANGED <<_inputContext, reqInput, reqContext, loops, stream, pushed,
                   outer>>

\* loop.run rejects: invoke has no handler, its promise rejects with it.
LoopThrow(r) ==
    /\ pc[r] = "running"
    /\ pc' = [pc EXCEPT ![r] = "threw"]
    /\ UNCHANGED <<_inputContext, reqInput, reqContext, loops, stream, pushed,
                   outer, loopResult, result>>

Next ==
    \E r \in Requests :
        \/ ResolveInput(r)
        \/ Invoke(r)
        \/ LoopPush(r, FewKinds)
        \/ LoopReturn(r, FewResults)
        \/ LoopThrow(r)

Spec == Init /\ [][Next]_vars

NextSolo ==
    \E r \in SoloRequests :
        \/ ResolveInput(r)
        \/ Invoke(r)
        \/ LoopPush(r, PartKinds)
        \/ LoopReturn(r, AllResults)
        \/ LoopThrow(r)

SpecSolo == InitSolo /\ [][NextSolo]_vars

----------------------------------------------------------------------------
(* Properties *)

Text(r) == result[r].content[1].value
Returned(r) == pc[r] = "done"
Succeeded(r) == loopResult[r].response.type = "success"
Rounds(r) == loopResult[r].toolCallRounds

\* C1 as stated: whatever the loop returns, the text invoke returns is a
\* non-empty string.
C1_AlwaysNonEmpty ==
    \A r \in Requests : Returned(r) => Text(r) # ""

\* C1 amended: invoke returns exactly one text part whatever the loop returns;
\* its text is empty exactly when the loop succeeded and the response it
\* selects (the last round's, or the fallback round's when there are no
\* rounds) is the empty string or absent.
C1_NonEmptyUnlessEmptyAnswer ==
    \A r \in Requests :
        Returned(r) =>
            /\ Len(result[r].content) = 1
            /\ Text(r) = "" <=>
                  /\ Succeeded(r)
                  /\ \/ /\ Rounds(r) # <<>>
                        /\ Rounds(r)[Len(Rounds(r))].response = ""
                     \/ /\ Rounds(r) = <<>>
                        /\ loopResult[r].round \in
                              {[id |-> "last"], [id |-> "last", response |-> ""]}

C1_Witness ==
    \E r \in Requests :
        /\ Returned(r) /\ Succeeded(r) /\ Rounds(r) = <<>>
        /\ ~Has(loopResult[r].round, "response")
        /\ Text(r) = ""

\* C2: on Success with at least one round, the returned text is the response
\* of the last round.
C2_LastRoundText ==
    \A r \in Requests :
        (Returned(r) /\ Succeeded(r) /\ Len(Rounds(r)) >= 1) =>
            Text(r) = Rounds(r)[Len(Rounds(r))].response

C2_Witness ==
    \E r \in Requests :
        /\ Returned(r) /\ Succeeded(r) /\ Len(Rounds(r)) = 2
        /\ Rounds(r)[1].response # Rounds(r)[2].response
        /\ Has(loopResult[r].round, "response")
        /\ loopResult[r].round.response # Rounds(r)[2].response
        /\ Text(r) = Rounds(r)[2].response

\* C3: on Success with no rounds, the returned text is the fallback round's
\* response, or the empty string when that round has none.
C3_FallbackText ==
    \A r \in Requests :
        (Returned(r) /\ Succeeded(r) /\ Rounds(r) = <<>>) =>
            Text(r) = IF "response" \in DOMAIN loopResult[r].round
                      THEN loopResult[r].round.response
                      ELSE ""

C3_Witness ==
    \E r \in Requests :
        /\ Returned(r) /\ Succeeded(r) /\ Rounds(r) = <<>>
        /\ Has(loopResult[r].round, "response")
        /\ Text(r) = "[]"

\* C4: when the loop returns a response of a kind K other than Success with
\* reason R, invoke returns normally and its text is the fixed sentence, a
\* line break, K, a colon and a space, and R, whatever the rounds hold.
C4_FailureText ==
    \A r \in Requests :
        (IsDefined(loopResult[r]) /\ ~Succeeded(r)) =>
            /\ Returned(r)
            /\ Text(r) =
                  "The search subagent request failed with this message:\n"
                  \o loopResult[r].response.type \o ": "
                  \o loopResult[r].response.reason

C4_Witness ==
    \E r \in Requests :
        /\ Returned(r)
        /\ loopResult[r].response = [type |-> "rateLimited", reason |-> "rate limited"]
        /\ Len(Rounds(r)) = 2
        /\ Text(r) = "The search subagent request failed with this message:\nrateLimited: rate limited"

\* C5: every configuration handed to a loop allows exactly one tool, the
\* terminal command tool.
C5_AllowlistIsRunInTerminal ==
    \A r \in Requests : \A i \in 1..Len(loops[r]) :
        /\ Cardinality(loops[r][i].allowedTools) = 1
        /\ loops[r][i].allowedTools = {ToolName.CoreRunInTerminal}

C5_Witness ==
    \E r1, r2 \in Requests :
        /\ Len(loops[r1]) = 1 /\ Len(loops[r2]) = 1
        /\ reqInput[r1] # reqInput[r2]
        /\ ~IsDefined(stream[r1]) /\ IsDefined(stream[r2])

\* C6: every configuration handed to a loop has a tool call limit of 25.
C6_ToolCallLimitIs25 ==
    \A r \in Requests : \A i \in 1..Len(loops[r]) :
        loops[r][i].toolCallLimit = 25

C6_Witness ==
    \E r1, r2 \in Requests :
        /\ Len(loops[r1]) = 1 /\ Len(loops[r2]) = 1
        /\ loops[r1][1].promptText = "pwd"
        /\ loops[r2][1].promptText = "ls -la"

\* C7: with an outer stream bound, what the filtered stream of a request has
\* forwarded to it is the subsequence of the parts its loop pushed that are
\* tool invocation preparations, text edits or notebook edits, in order.
C7_ForwardedIsKeptSubsequence ==
    \A r \in Requests :
        IsDefined(stream[r]) =>
            LET FromLoop(p) == p.from = r
                Kept(p) == p.kind \in {"ChatPrepareToolInvocationPart",
                                       "ChatResponseTextEditPart",
                                       "ChatResponseNotebookEditPart"}
            IN  SelectSeq(outer[stream[r].target.sink], FromLoop)
                    = SelectSeq(pushed[r], Kept)

C7_Witness ==
    \E r \in Requests :
        /\ IsDefined(stream[r])
        /\ Len(pushed[r]) = 3
        /\ pushed[r][1].kind = "ChatResponseNotebookEditPart"
        /\ pushed[r][2].kind = "ChatResponseMarkdownPart"
        /\ pushed[r][3].kind = "ChatPrepareToolInvocationPart"
        /\ Len(outer[stream[r].target.sink]) = 2

\* C8: an invoke that starts while no context is bound, or while the bound
\* context has no request, throws: no loop is created, nothing is forwarded
\* and no result is returned, then or later.
C8_MissingContextIsFatal ==
    /\ [](\A r \in Requests :
            (pc[r] = "threw" /\ loops[r] = <<>>) =>
                ~IsDefined(result[r]) /\ pushed[r] = <<>>)
    /\ [][\A r \in Requests :
            ( /\ pc[r] \in {"idle", "resolved"}
              /\ pc'[r] \notin {"idle", "resolved"}
              /\ \/ _inputContext = [undefined |-> TRUE]
                 \/ "request" \notin DOMAIN _inputContext )
            => ( /\ pc'[r] = "threw"
                 /\ loops'[r] = <<>>
                 /\ outer' = outer
                 /\ ~IsDefined(result'[r]) )]_vars

C8_Witness ==
    \E r \in Requests :
        /\ pc[r] = "threw" /\ loops[r] = <<>>
        /\ _inputContext = reqContext[r]
        /\ ~Has(reqContext[r], "request")

\* C9 as stated: an invoke that follows the resolveInput of its request
\* configures its loop and its filtered stream from the context of that
\* request, whatever other requests did in between.
C9_OwnContextUsed ==
    [][\A r \in Requests :
          (pc[r] = "resolved" /\ pc'[r] = "running") =>
              /\ loops'[r][1].request = Get(reqContext[r], "request")
              /\ stream'[r] = FilteredStream(reqContext[r])]_vars

\* C10: an invocation creates one loop and no more; once the loop has
\* returned, with whatever outcome, the invocation is over with its result.
C10_LoopRunsOnce ==
    \A r \in Requests :
        /\ Len(loops[r]) <= 1
        /\ pc[r] \in {"running", "done"} => Len(loops[r]) = 1
        /\ IsDefined(loopResult[r]) => pc[r] = "done" /\ IsDefined(result[r])

C10_Witness ==
    \E r \in Requests :
        /\ pc[r] = "done"
        /\ loopResult[r].response.type = "canceled"
        /\ Len(loops[r]) = 1

====
